---- MODULE Spec2Model ----
(***************************************************************************)
(* The child endpoint of across-tabs (src/src/child.js): the handshake     *)
(* with the parent tab, the expiry timer, the message listener and the     *)
(* identity kept in sessionStorage, as a state machine.                    *)
(*                                                                         *)
(* Text is a sequence of fragments.  A fragment is a piece of a string     *)
(* that the code never looks inside: a tag literal, a double quote, a      *)
(* brace, a JSON literal, or a whole quoted JSON string without any tag    *)
(* text in it (the fragment "1" stands for the four characters "1" with    *)
(* its quotes).  The separators ':' and ',' of an object are carried by    *)
(* the fragments next to them.  indexOf and split work on fragments, which *)
(* is what they do on characters as long as no tag literal occurs inside   *)
(* another fragment or across two of them.                                 *)
(***************************************************************************)
EXTENDS Naturals, Sequences, FiniteSets

(* ------------------------------ bounds --------------------------------- *)

\* message events dispatched to the window over the whole session
MaxMsgs == 2
\* explicit init() calls made by the embedding page, per page load
MaxInits == 1
\* page loads (constructions of Child) in the session
MaxLoads == 2

(* ------------------------------- text ---------------------------------- *)

PostMessageEventNamesEnum ==
  [ LOADED                |-> "__TAB__LOADED_EVENT__",
    CUSTOM                |-> "__TAB__CUSTOM_EVENT__",
    HANDSHAKE             |-> "__TAB__HANDSHAKE_EVENT__",
    ON_BEFORE_UNLOAD      |-> "__TAB__ON_BEFORE_UNLOAD__",
    PARENT_DISCONNECTED   |-> "__PARENT_DISCONNECTED__",
    HANDSHAKE_WITH_PARENT |-> "__HANDSHAKE_WITH_PARENT__",
    PARENT_COMMUNICATED   |-> "__PARENT_COMMUNICATED__" ]

WarningTextEnum ==
  [ INVALID_JSON |-> "INVALID_JSON", INVALID_DATA |-> "INVALID_DATA" ]

PARENT_DISCONNECTED   == PostMessageEventNamesEnum.PARENT_DISCONNECTED
HANDSHAKE_WITH_PARENT == PostMessageEventNamesEnum.HANDSHAKE_WITH_PARENT
PARENT_COMMUNICATED   == PostMessageEventNamesEnum.PARENT_COMMUNICATED

\* the tags the child acts on
InboundTags == {PARENT_DISCONNECTED, HANDSHAKE_WITH_PARENT, PARENT_COMMUNICATED}

QUOTE  == "\""
LBRACE == "{"
RBRACE == "}"

\* JSON literals
Literals == {"null", "true", "false"}
\* whole quoted strings, quotes included
PlainStrings == {"id", "name", "parentName", "isSiteInsideFrame", "1", "2", "n", "p", "w"}
\* the keys of the objects the endpoint reads and writes
KnownKeys == {"id", "name", "parentName", "isSiteInsideFrame"}

\* JavaScript values are kept as their JSON text; undefined has none
Undefined == << >>
Null      == <<"null">>

\* String.prototype.indexOf on fragments: 0 stands for -1
IndexOf(text, frag) ==
  IF \E i \in 1..Len(text) : text[i] = frag
  THEN CHOOSE i \in 1..Len(text) :
         text[i] = frag /\ \A j \in 1..(i - 1) : text[j] # frag
  ELSE 0

Contains(text, frag) == IndexOf(text, frag) > 0

\* data.split(tag)[1], for a text that contains the tag: what lies between
\* the first occurrence of the tag and the next one (or the end)
SplitSecond(text, tag) ==
  LET i    == IndexOf(text, tag)
      rest == SubSeq(text, i + 1, Len(text))
      j    == IndexOf(rest, tag)
  IN  IF j = 0 THEN rest ELSE SubSeq(rest, 1, j - 1)

\* length of the JSON string at the head of s, 0 when there is none
StringLen(s) ==
  IF s = << >> THEN 0
  ELSE IF s[1] \in PlainStrings THEN 1
  ELSE IF s[1] = QUOTE
  THEN LET k == IndexOf(Tail(s), QUOTE)
       IN  \* a quoted string closes at the next quote, and a whole-string
           \* fragment before it would bring a quote of its own
           IF k > 0 /\ \A j \in 1..(k - 1) : Tail(s)[j] \notin PlainStrings
           THEN k + 1 ELSE 0
  ELSE 0

\* length of the JSON scalar at the head of s, 0 when there is none
ValueLen(s) ==
  IF s # << >> /\ s[1] \in Literals THEN 1 ELSE StringLen(s)

NoFields == [k \in KnownKeys |-> Undefined]

ParseFail == [ok |-> FALSE, isObj |-> FALSE, v |-> Undefined, f |-> NoFields]

\* the members of an object, left to right, a later key overriding an earlier
RECURSIVE ParseMembers(_, _)
ParseMembers(s, f) ==
  IF s = << >> THEN [ok |-> TRUE, isObj |-> TRUE, v |-> Undefined, f |-> f]
  ELSE LET kl   == StringLen(s)
           rest == SubSeq(s, kl + 1, Len(s))
           vl   == ValueLen(rest)
       IN  IF kl = 0 \/ vl = 0 THEN ParseFail
           ELSE ParseMembers(SubSeq(rest, vl + 1, Len(rest)),
                             IF kl = 1 /\ s[1] \in KnownKeys
                             THEN [f EXCEPT ![s[1]] = SubSeq(rest, 1, vl)]
                             ELSE f)

\* JSON.parse of a text: a scalar, an object with scalar members, or a failure
JSONparse(text) ==
  IF text # << >> /\ ValueLen(text) = Len(text)
  THEN [ok |-> TRUE, isObj |-> FALSE, v |-> text, f |-> NoFields]
  ELSE IF Len(text) >= 2 /\ text[1] = LBRACE /\ text[Len(text)] = RBRACE
  THEN ParseMembers(SubSeq(text, 2, Len(text) - 1), NoFields)
  ELSE ParseFail

RECURSIVE StringifyMembers(_, _)
StringifyMembers(keys, f) ==
  IF keys = << >> THEN << >>
  ELSE (IF f[keys[1]] = Undefined THEN << >> ELSE <<keys[1]>> \o f[keys[1]])
       \o StringifyMembers(Tail(keys), f)

\* JSON.stringify of an object whose keys were inserted in the order `keys`:
\* a member whose value is undefined is left out
JSONstringify(keys, f) == <<LBRACE>> \o StringifyMembers(keys, f) \o <<RBRACE>>

\* actualData && actualData.<key>
Falsy(v) == v \in {Null, <<"false">>, <<QUOTE, QUOTE>>}

AndField(p, key) ==
  IF p.isObj THEN p.f[key]
  ELSE IF Falsy(p.v) THEN p.v
  ELSE Undefined

(* ------------------------------ state ---------------------------------- *)

VARIABLES
  config,   \* the configuration object handed to the constructor
  env,      \* the host window: sessionStorage present, framed, opener
  phase,    \* "fresh": page not yet scripted; "live"; "unloaded"
  child,    \* the fields of the Child object
  win,      \* what the page holds of the window: listeners, timers, hook
  slot,     \* sessionStorage['__vwo_new_tab_info__'], kept across reloads
  ev,       \* the last step: its operation, its input and its effects in order
  cnt       \* how often each thing has happened (ghost)

vars == <<config, env, phase, child, win, slot, ev, cnt>>

Callbacks == {"onReady", "onInitialize", "onParentCommunication",
              "onParentDisconnect", "onHandShakeExpiry"}

Origins == {"https://a.example", "https://b.example"}

\* window.name of the child window
WindowName == <<"w">>

\* one effect of a step
Fx(k, name, text, dest, to) ==
  [k |-> k, name |-> name, text |-> text, dest |-> dest, to |-> to]

Emit(m, e) == [m EXCEPT !.fx = Append(@, e)]

Throw(m, e) == [Emit(m, Fx("throw", e, << >>, "", "")) EXCEPT !.err = TRUE]

\* console.debug / console.warn / console.error, by the text logged
Console(m, text) == Emit(m, Fx("console", text, << >>, "", ""))

\* if (this.config.<cb>) this.config.<cb>(arg)
Invoke(m, cb, arg) ==
  IF cb \in config.callbacks THEN Emit(m, Fx("call", cb, arg, "", "")) ELSE m

(* ---------------------------- sessionStorage --------------------------- *)

_isSessionStorage == env.storage

\* window.sessionStorage.getItem: the stored text, or null
_getData(m) ==
  IF ~m.child.isSessionStorageSupported
  THEN [m |-> m, has |-> FALSE, text |-> << >>]
  ELSE [m |-> Emit(m, Fx("getItem", "", m.slot.text, "", "")),
        has |-> m.slot.has, text |-> m.slot.text]

\* mutant: the write is not guarded by isSessionStorageSupported
_setData_Unguarded(m, dataReceived) ==
  Emit([m EXCEPT !.slot = [has |-> TRUE, text |-> dataReceived]],
       Fx("setItem", "", dataReceived, "", ""))

_setData(m, dataReceived) ==
  IF ~m.child.isSessionStorageSupported THEN m
  ELSE Emit([m EXCEPT !.slot = [has |-> TRUE, text |-> dataReceived]],
            Fx("setItem", "", dataReceived, "", ""))

\* config.parse applied to what getItem returned: JSON.parse(null) is null
ParseStored(has, text) == IF has THEN JSONparse(text) ELSE JSONparse(Null)

\* the three assignments of _parseData, all or none
_parseResult(m, p) ==
  IF ~p.ok THEN Throw(m, WarningTextEnum.INVALID_DATA)
  ELSE [m EXCEPT !.child.tabId         = AndField(p, "id"),
                 !.child.tabName       = AndField(p, "name"),
                 !.child.tabParentName = AndField(p, "parentName")]

_parseData(m, dataReceived) == _parseResult(m, JSONparse(dataReceived))

\* mutant: nothing is restored
_restoreData_Skipped(m) == m

_restoreData(m) ==
  IF ~m.child.isSessionStorageSupported THEN m
  ELSE LET g == _getData(m)
       IN  _parseResult(g.m, ParseStored(g.has, g.text))

(* ------------------------------- sending ------------------------------- *)

\* window.top !== window: so in a framed window, and in no other
TopIsOther == env.framed

\* mutant: the opener is tried before the embedding parent
Destination_OpenerFirst ==
  IF env.opener THEN "opener"
  ELSE IF env.framed THEN "parent"
  ELSE IF TopIsOther THEN "top"
  ELSE "none"

\* which window postMessage is called on (lines 247-262): window.parent when
\* it is another window, else window.top.opener, else window.top when it is
\* another window, else none
Destination ==
  IF env.framed THEN "parent"
  ELSE IF env.opener THEN "opener"
  ELSE IF TopIsOther THEN "top"
  ELSE "none"

sendMessageToParent(m, keys, f, type) ==
  Emit(m, Fx("send", type, JSONstringify(keys, f), Destination,
             IF config.origin # "" THEN config.origin ELSE "*"))

getTabInfo(m) ==
  [ id                |-> m.child.tabId,
    name              |-> m.child.tabName,
    parentName        |-> m.child.tabParentName,
    isSiteInsideFrame |-> config.isSiteInsideFrame ]

TabInfoKeys == <<"id", "name", "parentName", "isSiteInsideFrame">>

\* { id: this.tabId, isSiteInsideFrame: this.config.isSiteInsideFrame }
AckMsg(m) ==
  [ id                |-> m.child.tabId,
    name              |-> Undefined,
    parentName        |-> Undefined,
    isSiteInsideFrame |-> config.isSiteInsideFrame ]

AckKeys == <<"id", "isSiteInsideFrame">>

(* ------------------------- listeners and timer ------------------------- *)

\* removeEventListener('message', evt => ...): the closure is a new one, equal
\* to no registered listener, so nothing is removed
removeEventListener(m) == m

addEventListener(m) == [m EXCEPT !.win.listeners = @ + 1]

addListeners(m) ==
  addEventListener(removeEventListener([m EXCEPT !.win.hook = TRUE]))

\* window.setTimeout: a new live timer, whose handle is returned
setHandshakeExpiry(m) ==
  [m EXCEPT !.win.timers    = @ \cup {m.win.nextTimer},
            !.win.nextTimer = @ + 1]

\* window.clearTimeout(this.timeout): no effect for a handle that is not live
clearTimeout(m) ==
  Emit([m EXCEPT !.win.timers = @ \ {m.child.timeout}],
       Fx("clearTimeout", "", << >>, "", ""))

(* --------------------------- onCommunication --------------------------- *)

\* data.indexOf(tag) > -1
HasTag(data, tag) == Contains(data, tag)

\* lines 147-156
DisconnectBranch(m) ==
  removeEventListener(
    Emit(Invoke(Console(m, "Parent disconnected"), "onParentDisconnect", << >>),
         Fx("removeEventListener", "", << >>, "", "")))

\* mutant: the ack is sent before the payload is stored and parsed
HandshakeBranch_AckFirst(m, data) ==
  LET dataReceived == SplitSecond(data, HANDSHAKE_WITH_PARENT)
      m0 == sendMessageToParent(Console(m, "Received HANDSHAKE_WITH_PARENT"),
                                AckKeys, AckMsg(m),
                                PostMessageEventNamesEnum.HANDSHAKE)
      m1 == _setData(m0, dataReceived)
      m2 == _parseData(m1, dataReceived)
  IN  IF m2.err THEN m2 ELSE Invoke(m2, "onInitialize", << >>)

\* mutant: a handshake is ignored once an id has been granted
HandshakeBranch_Once(m, data) ==
  LET dataReceived == SplitSecond(data, HANDSHAKE_WITH_PARENT)
      m1 == _setData(Console(m, "Received HANDSHAKE_WITH_PARENT"), dataReceived)
      m2 == _parseData(m1, dataReceived)
  IN  IF m.child.tabId \notin {Null, Undefined} THEN m
      ELSE IF m2.err THEN m2
      ELSE Invoke(sendMessageToParent(m2, AckKeys, AckMsg(m2),
                                      PostMessageEventNamesEnum.HANDSHAKE),
                  "onInitialize", << >>)

\* lines 162-182
HandshakeBranch(m, data) ==
  LET dataReceived == SplitSecond(data, HANDSHAKE_WITH_PARENT)
      m1 == _setData(Console(m, "Received HANDSHAKE_WITH_PARENT"), dataReceived)
      m2 == _parseData(m1, dataReceived)
  IN  IF m2.err THEN m2
      ELSE Invoke(sendMessageToParent(m2, AckKeys, AckMsg(m2),
                                      PostMessageEventNamesEnum.HANDSHAKE),
                  "onInitialize", << >>)

\* lines 185-200
CommunicatedBranch(m, data) ==
  LET dataReceived == SplitSecond(data, PARENT_COMMUNICATED)
      m1 == Console(m, "Received PARENT_COMMUNICATED message")
  IN  IF ~JSONparse(dataReceived).ok
      THEN Throw(m1, WarningTextEnum.INVALID_JSON)
      ELSE Invoke(m1, "onParentCommunication", dataReceived)

\* !data || typeof data !== 'string'
InvalidData(message) == ~message.isString \/ message.text = << >>

\* mutant: the origin check left out
OriginMismatch_Skipped(message) == FALSE

\* this.config.origin && this.config.origin !== message.origin
OriginMismatch(message) == config.origin # "" /\ config.origin # message.origin

\* message: [isString, text, origin]
onCommunication(m, message) ==
  IF InvalidData(message) THEN Console(m, "Invalid message received")
  ELSE IF OriginMismatch(message) THEN Console(m, "Origin mismatch")
  ELSE LET data == message.text
           m1 == clearTimeout(m)
           m2 == IF HasTag(data, PARENT_DISCONNECTED)
                 THEN DisconnectBranch(m1) ELSE m1
           m3 == IF HasTag(data, HANDSHAKE_WITH_PARENT)
                 THEN HandshakeBranch(m2, data) ELSE m2
       IN  IF m3.err THEN m3
           ELSE IF HasTag(data, PARENT_COMMUNICATED)
           THEN CommunicatedBranch(m3, data) ELSE m3

\* the window runs every registered listener on the event, one after the
\* other; an exception of one does not keep the next from running
RECURSIVE Dispatch(_, _, _)
Dispatch(m, n, message) ==
  IF n = 0 THEN m
  ELSE Dispatch([onCommunication(m, message) EXCEPT !.err = FALSE], n - 1, message)

(* --------------------------- init, constructor ------------------------- *)

\* mutant: LOADED is sent before the stored identity is restored
init_LoadedFirst(m) ==
  LET m1 == [m EXCEPT !.child.isSessionStorageSupported = _isSessionStorage]
      m2 == addListeners(m1)
      m3 == sendMessageToParent(m2, TabInfoKeys, getTabInfo(m2),
                                PostMessageEventNamesEnum.LOADED)
      m4 == _restoreData(m3)
      m5 == Emit([setHandshakeExpiry(m4) EXCEPT !.child.timeout = m4.win.nextTimer],
                 Fx("setTimeout", "", << >>, "", ""))
  IN  IF m4.err THEN m4 ELSE Invoke(m5, "onReady", << >>)

init(m) ==
  LET m1 == [m EXCEPT !.child.isSessionStorageSupported = _isSessionStorage]
      m2 == addListeners(m1)
      m3 == _restoreData(m2)
      m4 == sendMessageToParent(m3, TabInfoKeys, getTabInfo(m3),
                                PostMessageEventNamesEnum.LOADED)
      m5 == Emit([setHandshakeExpiry(m4) EXCEPT !.child.timeout = m4.win.nextTimer],
                 Fx("setTimeout", "", << >>, "", ""))
  IN  IF m3.err THEN m3 ELSE Invoke(m5, "onReady", << >>)

NoChild ==
  [ ref |-> FALSE, tabId |-> Undefined, tabName |-> Undefined,
    tabParentName |-> Undefined, timeout |-> 0,
    isSessionStorageSupported |-> FALSE ]

NoWin == [listeners |-> 0, timers |-> {}, nextTimer |-> 1, hook |-> FALSE]

\* new Child(config): lines 11-40; the caller holds the object only if the
\* constructor returns
constructor(m) ==
  LET m1 == [m EXCEPT !.child = [NoChild EXCEPT !.tabName = WindowName,
                                                !.tabId = Null,
                                                !.tabParentName = Null]]
      m2 == IF config.shouldInitImmediately THEN init(m1) ELSE m1
  IN  [m2 EXCEPT !.child.ref = ~m2.err]

\* window.onbeforeunload, set by addListeners (lines 207-214)
onbeforeunload(m) ==
  IF m.win.hook
  THEN sendMessageToParent(m, AckKeys, AckMsg(m),
                           PostMessageEventNamesEnum.ON_BEFORE_UNLOAD)
  ELSE m

(* ------------------------------- inputs -------------------------------- *)

IdentityKeys == <<"id", "name", "parentName">>

Identity(id, name, parentName) ==
  [ id |-> id, name |-> name, parentName |-> parentName,
    isSiteInsideFrame |-> Undefined ]

\* the parent's encoding of a message: the tag, then the serialized payload
Encode(tag, body) == <<tag>> \o body

\* serialized identities the parent may grant; in the last the name holds
\* the text of a tag
WellFormedIdentities ==
  { JSONstringify(IdentityKeys, Identity(<<"1">>, <<"n">>, <<"p">>)),
    JSONstringify(IdentityKeys, Identity(<<"2">>, <<"n">>, <<"p">>)),
    JSONstringify(IdentityKeys,
                  Identity(<<"1">>, <<QUOTE, HANDSHAKE_WITH_PARENT, QUOTE>>, <<"p">>)) }

\* serialized values an application message may carry: a string, and two
\* strings that hold the text of a tag
AppPayloads ==
  { <<"n">>,
    <<QUOTE, PARENT_DISCONNECTED, QUOTE>>,
    <<QUOTE, HANDSHAKE_WITH_PARENT, "null", HANDSHAKE_WITH_PARENT, QUOTE>> }

\* a text that JSON.parse rejects
MalformedPayloads == { <<LBRACE, "id">> }

InboundTexts ==
  { Encode(HANDSHAKE_WITH_PARENT, b) : b \in WellFormedIdentities \cup MalformedPayloads }
  \cup { Encode(PARENT_COMMUNICATED, b) : b \in AppPayloads \cup MalformedPayloads }
  \cup { <<PARENT_DISCONNECTED>>, <<"n">>, << >> }

\* what a window of another origin sends: one text of each tag
ForeignTexts ==
  { Encode(HANDSHAKE_WITH_PARENT,
           JSONstringify(IdentityKeys, Identity(<<"2">>, <<"n">>, <<"p">>))),
    Encode(PARENT_COMMUNICATED, <<"n">>),
    <<PARENT_DISCONNECTED>> }

\* a MessageEvent: data that is a string (its text) or is not, and an origin
MessageEvents ==
  [isString : {TRUE}, text : InboundTexts, origin : {"https://a.example"}]
  \cup [isString : {TRUE}, text : ForeignTexts, origin : {"https://b.example"}]
  \cup [isString : {FALSE}, text : {<< >>}, origin : {"https://a.example"}]

NoMsg == [isString |-> FALSE, text |-> << >>, origin |-> ""]

\* the configurations tried: with and without an origin, with and without
\* isSiteInsideFrame, started by the constructor or by the page, every
\* callback given
Configs ==
  [ origin                : {"", "https://a.example"},
    isSiteInsideFrame     : {Undefined, <<"true">>},
    shouldInitImmediately : BOOLEAN,
    callbacks             : {Callbacks} ]

\* a framed window, a window with an opener (for a framed one: whose top
\* window has an opener), a window with neither
Envs == [storage : BOOLEAN, framed : BOOLEAN, opener : BOOLEAN]

(* ------------------------------- actions ------------------------------- *)

NumFx(fx, k, name) ==
  Cardinality({i \in DOMAIN fx : fx[i].k = k /\ fx[i].name = name})

NumKind(fx, k) == Cardinality({i \in DOMAIN fx : fx[i].k = k})

OutTags == { PostMessageEventNamesEnum.LOADED,
             PostMessageEventNamesEnum.HANDSHAKE,
             PostMessageEventNamesEnum.ON_BEFORE_UNLOAD }

ZeroCnt ==
  [ msgs |-> 0, loads |-> 0, inits |-> 0, reads |-> 0, writes |-> 0,
    fired |-> 0, disc |-> 0, hs |-> 0,
    calls |-> [c \in Callbacks |-> 0], sent |-> [t \in OutTags |-> 0] ]

\* the counters after a step with effects fx, starting from c
Counted(c, fx) ==
  [c EXCEPT !.reads  = @ + NumKind(fx, "getItem"),
            !.writes = @ + NumKind(fx, "setItem"),
            !.calls  = [cb \in Callbacks |-> @[cb] + NumFx(fx, "call", cb)],
            !.sent   = [t \in OutTags |-> @[t] + NumFx(fx, "send", t)]]

Machine == [child |-> child, win |-> win, slot |-> slot, fx |-> << >>, err |-> FALSE]

Commit(op, msg, m) ==
  /\ child' = m.child
  /\ win'   = m.win
  /\ slot'  = m.slot
  /\ ev'    = [op |-> op, msg |-> msg, fx |-> m.fx]

Init ==
  /\ config \in Configs
  /\ env \in Envs
  \* a page says it is inside a frame exactly when it is
  /\ config.isSiteInsideFrame = (IF env.framed THEN <<"true">> ELSE Undefined)
  /\ phase = "fresh"
  /\ child = NoChild
  /\ win = NoWin
  /\ slot = [has |-> FALSE, text |-> << >>]
  /\ ev = [op |-> "none", msg |-> NoMsg, fx |-> << >>]
  /\ cnt = ZeroCnt

\* the page loads and its script runs new Child(config)
Construct ==
  /\ phase \in {"fresh", "unloaded"}
  /\ cnt.loads < MaxLoads
  /\ LET m == constructor(Machine)
     IN  /\ Commit("construct", NoMsg, m)
         /\ cnt' = Counted([ZeroCnt EXCEPT !.msgs = cnt.msgs, !.writes = cnt.writes,
                                           !.loads = cnt.loads + 1], m.fx)
  /\ phase' = "live"
  /\ UNCHANGED <<config, env>>

\* the page calls init() on the object it holds
InitCall ==
  /\ phase = "live"
  /\ child.ref
  /\ cnt.inits < MaxInits
  /\ LET m == init(Machine)
     IN  /\ Commit("init", NoMsg, m)
         /\ cnt' = Counted([cnt EXCEPT !.inits = @ + 1], m.fx)
  /\ UNCHANGED <<config, env, phase>>

\* a message event is dispatched to the window
Receive ==
  /\ phase = "live"
  /\ cnt.msgs < MaxMsgs
  /\ \E message \in MessageEvents :
       LET m == Dispatch(Machine, win.listeners, message)
       IN  /\ Commit("message", message, m)
           /\ cnt' = Counted([cnt EXCEPT !.msgs = @ + 1,
                                         !.disc = @ + NumFx(m.fx, "console", "Parent disconnected"),
                                         !.hs   = @ + NumFx(m.fx, "console",
                                                            "Received HANDSHAKE_WITH_PARENT")],
                             m.fx)
  /\ UNCHANGED <<config, env, phase>>

\* a live timer set by setHandshakeExpiry runs its callback (lines 226-230)
TimerFire ==
  /\ phase = "live"
  /\ \E t \in win.timers :
       LET m == Invoke([Machine EXCEPT !.win.timers = @ \ {t}],
                       "onHandShakeExpiry", << >>)
       IN  /\ Commit("timer", NoMsg, m)
           /\ cnt' = Counted([cnt EXCEPT !.fired = @ + 1], m.fx)
  /\ UNCHANGED <<config, env, phase>>

\* the page is torn down (closed or reloaded): the unload hook runs, then the
\* object, the listeners and the timers are gone; sessionStorage stays
Unload ==
  /\ phase = "live"
  /\ LET m == onbeforeunload(Machine)
     IN  /\ Commit("unload", NoMsg, [m EXCEPT !.child = NoChild, !.win = NoWin])
         /\ cnt' = Counted([ZeroCnt EXCEPT !.msgs = cnt.msgs, !.writes = cnt.writes,
                                           !.loads = cnt.loads], m.fx)
  /\ phase' = "unloaded"
  /\ UNCHANGED <<config, env>>

Next == Construct \/ InitCall \/ Receive \/ TimerFire \/ Unload

Spec == Init /\ [][Next]_vars

(* --------------------------- reading a step ---------------------------- *)

StartsWith(text, tag) == text # << >> /\ text[1] = tag

\* a message that passes the two filters of onCommunication
Accepted(message) == ~InvalidData(message) /\ ~OriginMismatch(message)

IdentityOf(c) == <<c.tabId, c.tabName, c.tabParentName>>

\* the identity a serialized payload grants
Granted(body) ==
  LET p == JSONparse(body) IN <<p.f["id"], p.f["name"], p.f["parentName"]>>

\* a HANDSHAKE_WITH_PARENT message whose payload is an identity record that
\* holds the text of no tag
PlainHandshake(text) ==
  /\ StartsWith(text, HANDSHAKE_WITH_PARENT)
  /\ JSONparse(Tail(text)).isObj
  /\ \A t \in InboundTags : ~Contains(Tail(text), t)

\* what the handler of each tag logs when it runs
BranchMarker(tag) ==
  IF tag = PARENT_DISCONNECTED THEN "Parent disconnected"
  ELSE IF tag = HANDSHAKE_WITH_PARENT THEN "Received HANDSHAKE_WITH_PARENT"
  ELSE "Received PARENT_COMMUNICATED message"

BranchRan(fx, tag) == NumFx(fx, "console", BranchMarker(tag)) > 0

(* -------------------------------- claims ------------------------------- *)

\* C1 (as claimed): a HANDSHAKE_WITH_PARENT message that passes the origin
\* filter, carries a well-formed identity and is processed before any expiry
\* timer has fired sets the identity to the payload's and invokes
\* onInitialize; and once the handshake is done with no expiry fired, no
\* expiry timer fires in that activation.
C1_HandshakeLiveness ==
  [][ /\ ( /\ ev'.op = "message"
           /\ win'.listeners >= 1
           /\ Accepted(ev'.msg)
           /\ StartsWith(ev'.msg.text, HANDSHAKE_WITH_PARENT)
           /\ Tail(ev'.msg.text) \in WellFormedIdentities
           /\ cnt.fired = 0 )
         => ( /\ IdentityOf(child') = Granted(Tail(ev'.msg.text))
              /\ NumFx(ev'.fx, "call", "onInitialize") >= 1 )
      /\ ( /\ cnt.calls["onInitialize"] > 0
           /\ cnt.fired = 0 )
         => ev'.op # "timer" ]_vars

\* C2 (as claimed): in an activation by one init() whose timer has been armed
\* and in which no handshake has been processed, whatever else has arrived,
\* the expiry is still to come (one timer pending) or has come exactly once.
C2_TimeoutUnlessHandshake ==
  ( /\ phase = "live"
    /\ win.listeners = 1
    /\ child.timeout # 0
    /\ cnt.hs = 0 )
  => Cardinality(win.timers) + cnt.calls["onHandShakeExpiry"] = 1

\* C3 (as claimed): in an activation by one init(), after a
\* PARENT_DISCONNECTED has been processed a later inbound message invokes no
\* callback, sends nothing and changes neither the identity nor the durable
\* slot; and onParentDisconnect is invoked at most once.
C3_DisconnectSemantics ==
  [][ win'.listeners = 1
      => ( /\ ( /\ cnt.disc > 0
                /\ ev'.op = "message" )
              => ( /\ NumKind(ev'.fx, "call") = 0
                   /\ NumKind(ev'.fx, "send") = 0
                   /\ child' = child
                   /\ slot' = slot )
           /\ cnt'.calls["onParentDisconnect"] <= 1 ) ]_vars

\* C4 (as claimed): only the handler of the tag a message begins with runs;
\* a PARENT_COMMUNICATED message, whatever its payload holds, leaves the
\* identity and the durable slot alone, sends no HANDSHAKE and invokes
\* neither onInitialize nor onParentDisconnect.
C4_PrefixExclusive ==
  [][ ( /\ ev'.op = "message"
        /\ win'.listeners >= 1
        /\ Accepted(ev'.msg) )
      => ( /\ \A t \in InboundTags :
                BranchRan(ev'.fx, t) => StartsWith(ev'.msg.text, t)
           /\ StartsWith(ev'.msg.text, PARENT_COMMUNICATED)
              => ( /\ IdentityOf(child') = IdentityOf(child)
                   /\ slot' = slot
                   /\ NumFx(ev'.fx, "send", PostMessageEventNamesEnum.HANDSHAKE) = 0
                   /\ NumFx(ev'.fx, "call", "onInitialize") = 0
                   /\ NumFx(ev'.fx, "call", "onParentDisconnect") = 0 ) ) ]_vars

\* C5: with config.origin set, a message of another origin has no effect in
\* any state and for any tag: the object, the durable slot, the listeners
\* and the timers are as before, nothing is called or sent, the only trace
\* is the warning logged.
C5_OriginFilter ==
  [][ ( /\ ev'.op = "message"
        /\ config.origin # ""
        /\ ev'.msg.origin # config.origin )
      => ( /\ child' = child
           /\ slot' = slot
           /\ win' = win
           /\ cnt'.calls = cnt.calls
           /\ cnt'.sent = cnt.sent
           /\ \A i \in DOMAIN ev'.fx : ev'.fx[i].k = "console" ) ]_vars

\* C5 witness: a handshake message of another origin has reached a
\* registered listener while the expiry timer was armed
C5_Witness ==
  /\ ev.op = "message"
  /\ config.origin # ""
  /\ ev.msg.origin # config.origin
  /\ StartsWith(ev.msg.text, HANDSHAKE_WITH_PARENT)
  /\ win.listeners >= 1
  /\ win.timers # {}
  /\ ev.fx # << >>

\* the last step ran init(): an explicit call, or the constructor's
InitRan == ev.op = "init" \/ (ev.op = "construct" /\ config.shouldInitImmediately)

\* the record getTabInfo() returns for the identity a stored text holds
TabInfoOf(text) ==
  LET p == JSONparse(text)
  IN  [ id                |-> p.f["id"],
        name              |-> p.f["name"],
        parentName        |-> p.f["parentName"],
        isSiteInsideFrame |-> config.isSiteInsideFrame ]

\* C6 (as claimed): a PARENT_COMMUNICATED message whose payload does not
\* deserialize raises INVALID_JSON, does not invoke onParentCommunication and
\* leaves the object, the durable slot, the listeners and the timers as they
\* were (an armed expiry timer stays armed).
C6_MalformedAppPayload ==
  [][ ( /\ ev'.op = "message"
        /\ win'.listeners = 1
        /\ Accepted(ev'.msg)
        /\ StartsWith(ev'.msg.text, PARENT_COMMUNICATED)
        /\ Tail(ev'.msg.text) \in MalformedPayloads )
      => ( /\ NumFx(ev'.fx, "throw", WarningTextEnum.INVALID_JSON) = 1
           /\ NumFx(ev'.fx, "call", "onParentCommunication") = 0
           /\ child' = child
           /\ slot' = slot
           /\ win' = win ) ]_vars

\* C7 (as claimed): a HANDSHAKE_WITH_PARENT message whose payload does not
\* deserialize raises an error and changes nothing: identity and durable slot
\* as before, no HANDSHAKE sent, onInitialize not invoked; so the durable slot,
\* when it holds something, holds a text that deserializes.
C7_MalformedHandshake ==
  [][ /\ ( /\ ev'.op = "message"
           /\ win'.listeners = 1
           /\ Accepted(ev'.msg)
           /\ StartsWith(ev'.msg.text, HANDSHAKE_WITH_PARENT)
           /\ Tail(ev'.msg.text) \in MalformedPayloads )
         => ( /\ NumKind(ev'.fx, "throw") = 1
              /\ IdentityOf(child') = IdentityOf(child)
              /\ slot' = slot
              /\ NumFx(ev'.fx, "send", PostMessageEventNamesEnum.HANDSHAKE) = 0
              /\ NumFx(ev'.fx, "call", "onInitialize") = 0 )
      /\ slot'.has => JSONparse(slot'.text).ok ]_vars

\* C8: the identity a HANDSHAKE_WITH_PARENT message grants is the one it
\* persists; and in an activation
\* whose init() has run with the durable slot holding an identity record,
\* until a handshake is processed getTabInfo() returns that record's id, name
\* and parentName with the configured isSiteInsideFrame, and the LOADED sent
\* by init() carries the same.
C8_PersistenceRoundTrip ==
  /\ ( /\ ev.op = "message"
       /\ StartsWith(ev.msg.text, HANDSHAKE_WITH_PARENT)
       /\ NumFx(ev.fx, "send", PostMessageEventNamesEnum.HANDSHAKE) > 0
       /\ child.isSessionStorageSupported )
     => ( /\ slot.has
          /\ JSONparse(slot.text).isObj
          /\ IdentityOf(child) = Granted(Tail(ev.msg.text))
          /\ getTabInfo(Machine) = TabInfoOf(slot.text) )
  /\ ( /\ phase = "live"
       /\ child.isSessionStorageSupported
       /\ cnt.hs = 0
       /\ slot.has
       /\ JSONparse(slot.text).isObj )
     => ( /\ getTabInfo(Machine) = TabInfoOf(slot.text)
          /\ InitRan
             => \E i \in DOMAIN ev.fx :
                  /\ ev.fx[i].k = "send"
                  /\ ev.fx[i].name = PostMessageEventNamesEnum.LOADED
                  /\ ev.fx[i].text = JSONstringify(TabInfoKeys, TabInfoOf(slot.text)) )

\* C8 witness: a second page load has restored the identity {1, n, p} that a
\* handshake of the first one persisted, and has announced it
C8_Witness ==
  /\ cnt.loads = 2
  /\ ev.op = "construct"
  /\ cnt.hs = 0
  /\ slot.has
  /\ IdentityOf(child) = << <<"1">>, <<"n">>, <<"p">> >>
  /\ cnt.sent[PostMessageEventNamesEnum.LOADED] = 1

AwaitingAck ==
  /\ phase = "live"
  /\ child.timeout # 0
  /\ cnt.hs = 0
  /\ cnt.fired = 0
  /\ cnt.disc = 0

\* C11 (as claimed): while the activated endpoint awaits the handshake,
\* after any number of init() calls and any messages other than
\* HANDSHAKE_WITH_PARENT, exactly one expiry timer is live; and a step cancels
\* the timer only when it processes a HANDSHAKE_WITH_PARENT.
C11_OneLiveTimer ==
  [][ /\ AwaitingAck' => Cardinality(win'.timers) = 1
      /\ NumKind(ev'.fx, "clearTimeout") > 0
         => BranchRan(ev'.fx, HANDSHAKE_WITH_PARENT) ]_vars

\* the endpoint is ESTABLISHED: a handshake has completed in this activation
\* and neither the expiry nor a disconnect has come
Established ==
  /\ phase = "live"
  /\ cnt.calls["onInitialize"] > 0
  /\ cnt.fired = 0
  /\ cnt.disc = 0

\* C12 (as claimed): a step invokes onParentCommunication only when the
\* endpoint was ESTABLISHED before it; a PARENT_COMMUNICATED message that
\* arrives while the handshake is awaited, after the expiry or after a
\* disconnect does not invoke it.
C12_AppMessagesWhenEstablished ==
  [][ NumFx(ev'.fx, "call", "onParentCommunication") > 0 => Established ]_vars

\* the sends among the effects of a step
Sends(fx) == {i \in DOMAIN fx : fx[i].k = "send"}

\* C13: every sendMessageToParent call makes one send, to the embedding
\* parent if the window is framed, else to the opener if there is one, else
\* to the top window if it is another window, else to none; a send to none
\* raises nothing and leaves the object, the durable slot, the listeners and
\* the timers as the step without it leaves them; the target origin is
\* config.origin when set and '*' otherwise.
C13_TransportSelection ==
  /\ \A i \in Sends(ev.fx) :
       /\ ev.fx[i].dest = (IF env.framed THEN "parent"
                           ELSE IF env.opener THEN "opener"
                           ELSE IF TopIsOther THEN "top"
                           ELSE "none")
       /\ ev.fx[i].to = (IF config.origin # "" THEN config.origin ELSE "*")
       /\ ev.fx[i].dest = "none"
          => (i < Len(ev.fx) => ev.fx[i + 1].k # "throw")
  /\ Cardinality(Sends(ev.fx))
       = NumFx(ev.fx, "send", PostMessageEventNamesEnum.LOADED)
         + NumFx(ev.fx, "send", PostMessageEventNamesEnum.HANDSHAKE)
         + NumFx(ev.fx, "send", PostMessageEventNamesEnum.ON_BEFORE_UNLOAD)
  /\ \A i \in Sends(ev.fx) :
       (ev.fx[i].dest = "none" /\ ev.fx[i].name = PostMessageEventNamesEnum.HANDSHAKE)
       => ( /\ i < Len(ev.fx)
            /\ ev.fx[i + 1].k = "call"
            /\ ev.fx[i + 1].name = "onInitialize" )
  /\ (InitRan /\ Sends(ev.fx) # {} /\ ~env.framed /\ ~env.opener)
     => ( /\ NumKind(ev.fx, "throw") = 0
          /\ child.timeout \in win.timers
          /\ NumFx(ev.fx, "call", "onReady") = 1 )

\* C13 witness: in a framed window whose top window has an opener, with
\* config.origin set, a handshake ack has been sent to the embedding parent
C13_Witness ==
  /\ env.framed
  /\ env.opener
  /\ config.origin # ""
  /\ \E i \in Sends(ev.fx) :
       /\ ev.fx[i].name = PostMessageEventNamesEnum.HANDSHAKE
       /\ ev.fx[i].dest = "parent"
       /\ ev.fx[i].to = config.origin

\* C14 (as claimed): a message made of a recognized tag and a serialized
\* payload, whatever tag text the payload holds, is decoded as that tag and
\* no other, with the payload that was serialized: a handshake grants the
\* identity of its payload, an application message hands its payload to
\* onParentCommunication.
C14_CodecRoundTrip ==
  [][ ( /\ ev'.op = "message"
        /\ win'.listeners = 1
        /\ Accepted(ev'.msg) )
      => ( /\ ( /\ StartsWith(ev'.msg.text, HANDSHAKE_WITH_PARENT)
                /\ Tail(ev'.msg.text) \in WellFormedIdentities )
              => ( /\ \A t \in InboundTags :
                        BranchRan(ev'.fx, t) <=> t = HANDSHAKE_WITH_PARENT
                   /\ IdentityOf(child') = Granted(Tail(ev'.msg.text)) )
           /\ ( /\ StartsWith(ev'.msg.text, PARENT_COMMUNICATED)
                /\ Tail(ev'.msg.text) \in AppPayloads )
              => ( /\ \A t \in InboundTags :
                        BranchRan(ev'.fx, t) <=> t = PARENT_COMMUNICATED
                   /\ \E i \in DOMAIN ev'.fx :
                        /\ ev'.fx[i].k = "call"
                        /\ ev'.fx[i].name = "onParentCommunication"
                        /\ ev'.fx[i].text = Tail(ev'.msg.text) ) ) ]_vars

\* the HANDSHAKE acks among the effects of a step
Acks(fx) == {i \in Sends(fx) : fx[i].name = PostMessageEventNamesEnum.HANDSHAKE}

\* the text of the ack for the id a serialized identity grants
AckFor(body) ==
  JSONstringify(AckKeys, [NoFields EXCEPT
                            !["id"] = JSONparse(body).f["id"],
                            !["isSiteInsideFrame"] = config.isSiteInsideFrame])

C17_ExpiredTerminal ==
  [][ ( /\ win'.listeners = 1
        /\ cnt.calls["onHandShakeExpiry"] > 0
        /\ ev'.op = "message"
        /\ Accepted(ev'.msg)
        /\ PlainHandshake(ev'.msg.text) )
      => ( /\ Acks(ev'.fx) = {}
           /\ NumFx(ev'.fx, "call", "onInitialize") = 0
           /\ ~( /\ cnt'.calls["onHandShakeExpiry"] > 0
                 /\ cnt'.calls["onInitialize"] > 0 ) ) ]_vars

\* a message the endpoint does not recognize: data that is no string or is
\* empty, or a string that holds no inbound tag
Unrecognized(message) ==
  \/ InvalidData(message)
  \/ \A t \in InboundTags : ~HasTag(message.text, t)

\* C18 (as claimed): an unrecognized message changes nothing: no callback,
\* no send, the object and the durable slot as before, the listeners and the
\* timers as before (an armed expiry timer stays armed).
C18_UnrecognizedDropped ==
  [][ ( /\ ev'.op = "message"
        /\ Unrecognized(ev'.msg) )
      => ( /\ NumKind(ev'.fx, "call") = 0
           /\ NumKind(ev'.fx, "send") = 0
           /\ child' = child
           /\ slot' = slot
           /\ win' = win ) ]_vars

\* C19 (as claimed): whatever init() calls have been made, at most one
\* message listener is registered, so that a message makes each callback and
\* the HANDSHAKE ack happen at most once.
C19_SingleListener ==
  /\ win.listeners <= 1
  /\ ev.op = "message"
     => ( /\ Cardinality(Acks(ev.fx)) <= 1
          /\ \A cb \in {"onInitialize", "onParentCommunication", "onParentDisconnect"} :
               NumFx(ev.fx, "call", cb) <= 1 )

\* C20 (as claimed): whatever the durable slot holds, init() raises nothing,
\* sends one LOADED, then arms the expiry timer, then invokes onReady once;
\* and in no state is a listener registered while no LOADED has been sent in
\* the activation and no expiry timer is armed.
C20_ActivationCompletes ==
  /\ InitRan
     => ( /\ NumKind(ev.fx, "throw") = 0
          /\ NumFx(ev.fx, "send", PostMessageEventNamesEnum.LOADED) = 1
          /\ NumKind(ev.fx, "setTimeout") = 1
          /\ child.timeout \in win.timers
          /\ NumFx(ev.fx, "call", "onReady") = 1
          /\ \A i, j \in DOMAIN ev.fx :
               ( \/ ev.fx[i].k = "send" /\ ev.fx[j].k = "setTimeout"
                 \/ ev.fx[i].k = "setTimeout" /\ ev.fx[j].k = "call" )
               => i < j )
  /\ ~( /\ phase = "live"
        /\ win.listeners >= 1
        /\ cnt.sent[PostMessageEventNamesEnum.LOADED] = 0
        /\ win.timers = {} )

====
